---- MODULE Spec2Model ----
(***************************************************************************)
(* Model of src/error/context.rs: the Context trait with its default       *)
(* methods, the three built-in implementations (&'static str,              *)
(* ExpectedContext, OperationContext) and the with_context plumbing.       *)
(*                                                                         *)
(* Two specifications share the variables:                                 *)
(*   Spec        nested with_context calls around one inner computation;   *)
(*   SpecRender  calls of the Context methods on the built-in variants     *)
(*               against a text sink that may fail.                        *)
(***************************************************************************)
EXTENDS Integers, Sequences, FiniteSets, TLC

VARIABLES
    stack,  \* active with_context calls, outermost first: <<[input, context]>>
    pc,     \* "running": the innermost f executes; "returning"; "done"
    ret,    \* the Result travelling outwards
    calls,  \* log of WithContext::with_context calls: <<[err, input, context]>>
    snap,   \* the inner computation's outcome and the stack it ran under
    hist,   \* the most recent with_context invocation that returned
    sink,   \* the text sink (fmt::Write): [buf, failing, attempts]
    last    \* the most recent Context method call: [method, ctx, arg, res, before]

vars == <<stack, pc, ret, calls, snap, hist, sink, last>>

-----------------------------------------------------------------------------
(* Bounds *)

NumTexts == 2   \* how many texts of TextPool the fields range over
MaxDepth == 2   \* nesting depth of with_context calls
MaxWrites == 2  \* write attempts on one sink

TextPool == <<"", "context", "comma", "parse header", "parse body", "parse digit">>

Texts == {TextPool[i] : i \in 1..(IF NumTexts < Len(TextPool) THEN NumTexts ELSE Len(TextPool))}

Spans == {<<10, 12>>, <<0, 4>>}

Values == {"v1", "v2"}

-----------------------------------------------------------------------------
(* Result and Option *)

Ok(v) == [ok |-> TRUE, val |-> v]

Err(e) == [ok |-> FALSE, err |-> e]

None == [some |-> FALSE]

Some(v) == [some |-> TRUE, val |-> v]

FmtError == "fmt::Error"

-----------------------------------------------------------------------------
(* The text sink: fmt::Write::write_str either appends the text or fails.  *)
(* buf keeps one entry per successful write, so a write of the empty text  *)
(* differs from no write.                                                  *)

NewSink(failing) == [buf |-> <<>>, failing |-> failing, attempts |-> 0]

write_str(w, s) ==
    IF w.failing
    THEN [res |-> Err(FmtError), w |-> [w EXCEPT !.attempts = @ + 1]]
    ELSE [res |-> Ok("unit"), w |-> [w EXCEPT !.buf = Append(@, s), !.attempts = @ + 1]]

-----------------------------------------------------------------------------
(* The built-in context values *)

StrContext(s) == [type |-> "str", text |-> s]

ExpectedContext(op, ex) == [type |-> "ExpectedContext", operation |-> op, expected |-> ex]

OperationContext(op) == [type |-> "OperationContext", op |-> op]

TypeIds == {"str", "ExpectedContext", "OperationContext"}

Contexts ==
    {StrContext(s) : s \in Texts}
    \cup {ExpectedContext(op, ex) : op \in Texts, ex \in Texts}
    \cup {OperationContext(op) : op \in Texts}

(* trait defaults *)

Context_has_expected(self) == FALSE

(* variant of the default: succeeds, writing the empty text *)
Context_expected_empty_ok(self, w) == write_str(w, "")

Context_expected(self, w) == [res |-> Err(FmtError), w |-> w]

(* impl Context for &'static str *)

(* variant: writes the label instead of the literal *)
str_operation_writes_label(self, w) == write_str(w, self.text)

str_operation(self, w) == write_str(w, "context")

str_has_expected(self) == TRUE

str_expected(self, w) == write_str(w, self.text)

str_as_any(self) == [tid |-> "str", val |-> self]

(* impl Context for ExpectedContext *)

(* variant: the write's result is dropped and Ok(()) returned *)
ExpectedContext_operation_swallows(self, w) ==
    [res |-> Ok("unit"), w |-> write_str(w, self.operation).w]

ExpectedContext_operation(self, w) == write_str(w, self.operation)

(* variant: tests the other field *)
ExpectedContext_has_expected_wrong_field(self) == self.operation # ""

ExpectedContext_has_expected(self) == self.expected # ""

(* variant: an empty expected field is reported as a formatting error *)
ExpectedContext_expected_rejects_empty(self, w) ==
    IF self.expected = "" THEN [res |-> Err(FmtError), w |-> w] ELSE write_str(w, self.expected)

ExpectedContext_expected(self, w) == write_str(w, self.expected)

(* variant: exposes the expected field rather than self *)
ExpectedContext_as_any_proxies(self) == [tid |-> "str", val |-> StrContext(self.expected)]

ExpectedContext_as_any(self) == [tid |-> "ExpectedContext", val |-> self]

(* impl Context for OperationContext *)

OperationContext_operation(self, w) == write_str(w, self.op)

OperationContext_as_any(self) == [tid |-> "OperationContext", val |-> self]

(* dynamic dispatch on a Context trait object *)

operation(c, w) ==
    CASE c.type = "str" -> str_operation(c, w)
      [] c.type = "ExpectedContext" -> ExpectedContext_operation(c, w)
      [] c.type = "OperationContext" -> OperationContext_operation(c, w)

has_expected(c) ==
    CASE c.type = "str" -> str_has_expected(c)
      [] c.type = "ExpectedContext" -> ExpectedContext_has_expected(c)
      [] c.type = "OperationContext" -> Context_has_expected(c)

expected(c, w) ==
    CASE c.type = "str" -> str_expected(c, w)
      [] c.type = "ExpectedContext" -> ExpectedContext_expected(c, w)
      [] c.type = "OperationContext" -> Context_expected(c, w)

as_any(c) ==
    CASE c.type = "str" -> str_as_any(c)
      [] c.type = "ExpectedContext" -> ExpectedContext_as_any(c)
      [] c.type = "OperationContext" -> OperationContext_as_any(c)

(* <dyn Any>::downcast_ref::<T>() *)

downcast_ref(any, T) == IF any.tid = T THEN Some(any.val) ELSE None

-----------------------------------------------------------------------------
(* The error being enriched.  WithContext::with_context of the error type  *)
(* records one (input, context) frame behind the frames it already holds.  *)

Frame(input, context) == [input |-> input, context |-> context]

E_with_context(err, input, context) ==
    [err EXCEPT !.frames = Append(@, Frame(input, context))]

PriorFrame == Frame(<<0, 4>>, OperationContext("prior"))

LeafErrors == {[cause |-> "e", frames |-> <<>>], [cause |-> "e", frames |-> <<PriorFrame>>]}

(* variants of with_context *)

(* Ok path renders the context's operation into the sink *)
with_context_traces_ok(input, context, f, env) ==
    IF f.ok
    THEN [result |-> Ok(f.val), calls |-> env.calls, sink |-> operation(context, env.sink).w]
    ELSE [result |-> Err(E_with_context(f.err, input, context)),
          calls |-> Append(env.calls, [err |-> f.err, input |-> input, context |-> context]),
          sink |-> env.sink]

(* Err path relays the error without attaching *)
with_context_drops_attach(input, context, f, env) ==
    [result |-> f, calls |-> env.calls, sink |-> env.sink]

(* Err path attaches the frame twice *)
with_context_attaches_twice(input, context, f, env) ==
    IF f.ok
    THEN [result |-> Ok(f.val), calls |-> env.calls, sink |-> env.sink]
    ELSE LET once == E_with_context(f.err, input, context)
         IN  [result |-> Err(E_with_context(once, input, context)),
              calls |-> env.calls
                        \o <<[err |-> f.err, input |-> input, context |-> context],
                             [err |-> once, input |-> input, context |-> context]>>,
              sink |-> env.sink]

(* Err path renders the context's operation while attaching *)
with_context_renders_on_attach(input, context, f, env) ==
    IF f.ok
    THEN [result |-> Ok(f.val), calls |-> env.calls, sink |-> env.sink]
    ELSE [result |-> Err(E_with_context(f.err, input, context)),
          calls |-> Append(env.calls, [err |-> f.err, input |-> input, context |-> context]),
          sink |-> operation(context, env.sink).w]

(* with_context(input, context, f), given what f() returned; env is the    *)
(* world it can reach: the incorporation boundary's call log and the sink. *)

with_context(input, context, f, env) ==
    IF f.ok
    THEN [result |-> Ok(f.val), calls |-> env.calls, sink |-> env.sink]
    ELSE [result |-> Err(E_with_context(f.err, input, context)),
          calls |-> Append(env.calls, [err |-> f.err, input |-> input, context |-> context]),
          sink |-> env.sink]

-----------------------------------------------------------------------------
(* Spec: nested with_context calls *)

NoRet == [pending |-> TRUE]

NoHist == [valid |-> FALSE]

NoLast == [method |-> "none"]

Init ==
    /\ stack = <<>>
    /\ pc = "running"
    /\ ret = NoRet
    /\ calls = <<>>
    /\ snap = NoHist
    /\ hist = NoHist
    /\ sink \in {NewSink(f) : f \in BOOLEAN}
    /\ last = NoLast

(* a parser calls with_context(input, context, f): f starts to run *)
Enter ==
    /\ pc = "running"
    /\ Len(stack) < MaxDepth
    /\ \E input \in Spans, context \in Contexts :
          stack' = Append(stack, Frame(input, context))
    /\ UNCHANGED <<pc, ret, calls, snap, hist, sink, last>>

(* the innermost f returns Ok(v) *)
LeafOk ==
    /\ pc = "running"
    /\ Len(stack) >= 1
    /\ \E v \in Values :
          /\ ret' = Ok(v)
          /\ snap' = [valid |-> TRUE, ret |-> Ok(v), stack |-> stack]
    /\ pc' = "returning"
    /\ UNCHANGED <<stack, calls, hist, sink, last>>

(* the innermost f returns Err(e) *)
LeafErr ==
    /\ pc = "running"
    /\ Len(stack) >= 1
    /\ \E e \in LeafErrors :
          /\ ret' = Err(e)
          /\ snap' = [valid |-> TRUE, ret |-> Err(e), stack |-> stack]
    /\ pc' = "returning"
    /\ UNCHANGED <<stack, calls, hist, sink, last>>

(* the innermost active with_context matches on what its f returned and    *)
(* returns to its caller                                                   *)
Return ==
    /\ pc = "returning"
    /\ Len(stack) >= 1
    /\ LET top == stack[Len(stack)]
           out == with_context(top.input, top.context, ret, [calls |-> calls, sink |-> sink])
       IN  /\ ret' = out.result
           /\ calls' = out.calls
           /\ sink' = out.sink
           /\ hist' = [valid |-> TRUE, input |-> top.input, context |-> top.context,
                       inner |-> ret, calls |-> calls, sink |-> sink]
    /\ stack' = SubSeq(stack, 1, Len(stack) - 1)
    /\ pc' = IF Len(stack) = 1 THEN "done" ELSE "returning"
    /\ UNCHANGED <<snap, last>>

Next == Enter \/ LeafOk \/ LeafErr \/ Return

Spec == Init /\ [][Next]_vars

-----------------------------------------------------------------------------
(* SpecRender: a downstream renderer calls the Context methods *)

InitRender ==
    /\ stack = <<>>
    /\ pc = "running"
    /\ ret = NoRet
    /\ calls = <<>>
    /\ snap = NoHist
    /\ hist = NoHist
    /\ sink \in {NewSink(f) : f \in BOOLEAN}
    /\ last = NoLast

Called(method, c, arg, res) ==
    [method |-> method, ctx |-> c, arg |-> arg, res |-> res, before |-> sink]

(* context.operation(&mut sink) *)
CallOperation ==
    /\ sink.attempts < MaxWrites
    /\ \E c \in Contexts :
          LET r == operation(c, sink)
          IN  /\ sink' = r.w
              /\ last' = Called("operation", c, "", r.res)
    /\ UNCHANGED <<stack, pc, ret, calls, snap, hist>>

(* context.has_expected() *)
CallHasExpected ==
    /\ \E c \in Contexts : last' = Called("has_expected", c, "", has_expected(c))
    /\ UNCHANGED <<stack, pc, ret, calls, snap, hist, sink>>

(* context.expected(&mut sink), whether or not has_expected() holds *)
CallExpected ==
    /\ sink.attempts < MaxWrites
    /\ \E c \in Contexts :
          LET r == expected(c, sink)
          IN  /\ sink' = r.w
              /\ last' = Called("expected", c, "", r.res)
    /\ UNCHANGED <<stack, pc, ret, calls, snap, hist>>

(* context.as_any().downcast_ref::<T>() *)
CallDowncast ==
    /\ \E c \in Contexts, T \in TypeIds :
          last' = Called("downcast", c, T, downcast_ref(as_any(c), T))
    /\ UNCHANGED <<stack, pc, ret, calls, snap, hist, sink>>

(* the sink starts or stops failing between two calls *)
SinkToggle ==
    /\ sink' = [sink EXCEPT !.failing = ~@]
    /\ UNCHANGED <<stack, pc, ret, calls, snap, hist, last>>

NextRender == CallOperation \/ CallHasExpected \/ CallExpected \/ CallDowncast \/ SinkToggle

SpecRender == InitRender /\ [][NextRender]_vars

-----------------------------------------------------------------------------
(* Properties of with_context, checked under Spec *)

BoundaryCall(h) == [err |-> h.inner.err, input |-> h.input, context |-> h.context]

\* C1: when the inner computation succeeded with v, with_context returns Ok(v)
\* with the same v, the incorporation boundary is not called and the sink is
\* not written to.
C1_SuccessPassThrough ==
    (hist.valid /\ hist.inner.ok) =>
        /\ ret = Ok(hist.inner.val)
        /\ calls = hist.calls
        /\ sink = hist.sink

C1_Witness ==
    /\ pc = "done"
    /\ hist.valid /\ hist.inner.ok
    /\ Len(snap.stack) = MaxDepth
    /\ ret = Ok("v2")

\* C2: when the inner computation failed with e, with_context calls the
\* incorporation boundary exactly once, on e, with the span and the context it
\* was given, and returns Err of what that call produced.
C2_FailureAttachesOnce ==
    (hist.valid /\ ~hist.inner.ok) =>
        /\ calls = Append(hist.calls, BoundaryCall(hist))
        /\ ret = Err(E_with_context(hist.inner.err, hist.input, hist.context))

C2_Witness ==
    /\ hist.valid /\ ~hist.inner.ok
    /\ Len(calls) = 1
    /\ calls[1].input = <<10, 12>>
    /\ calls[1].context = ExpectedContext("context", "")

\* C3: with n nested with_context calls around one failing computation, after
\* k of them have returned the error carries the frames it had, unaltered,
\* followed by exactly k new frames: those of the k innermost calls, innermost
\* first; when all have returned it carries n new frames.
C3_FramesInAttachOrder ==
    (snap.valid /\ ~snap.ret.ok) =>
        LET n == Len(snap.stack)
            k == n - Len(stack)
            attached == [i \in 1..k |-> snap.stack[n + 1 - i]]
        IN  /\ stack = SubSeq(snap.stack, 1, n - k)
            /\ ret = Err([snap.ret.err EXCEPT !.frames = @ \o attached])
            /\ (pc = "done" => k = n)

C3_Witness ==
    /\ pc = "done"
    /\ snap.valid /\ ~snap.ret.ok
    /\ Len(snap.stack) = MaxDepth
    /\ snap.ret.err.frames = <<PriorFrame>>
    /\ Len(ret.err.frames) = MaxDepth + 1
    /\ ret.err.frames[2] # ret.err.frames[3]

\* C4: with_context returns Err exactly when the inner computation did, and
\* it leaves the sink alone on both paths, whether or not the sink would fail.
C4_NoNewFailure ==
    hist.valid =>
        /\ ret.ok = hist.inner.ok
        /\ sink = hist.sink
        /\ sink.attempts = 0

C4_Witness ==
    /\ pc = "done"
    /\ hist.valid /\ ~hist.inner.ok /\ ~ret.ok
    /\ sink.failing
    /\ Len(snap.stack) = MaxDepth

-----------------------------------------------------------------------------
(* Properties of the built-in variants, checked under SpecRender *)

Did(method, type) == last.method = method /\ last.ctx.type = type

Wrote(s) ==
    /\ last.res = Ok("unit")
    /\ sink.buf = Append(last.before.buf, s)
    /\ sink.attempts = last.before.attempts + 1

WroteNothing ==
    /\ sink.buf = last.before.buf
    /\ sink.attempts = last.before.attempts

\* C5: for ExpectedContext, has_expected is true iff the expected field is
\* non-empty; when it is, expected writes the expected field; operation writes
\* the operation field whatever the expected field is (sink not failing).
C5_PairVariant ==
    /\ Did("has_expected", "ExpectedContext") => (last.res <=> last.ctx.expected # "")
    /\ (Did("expected", "ExpectedContext") /\ has_expected(last.ctx) /\ ~last.before.failing)
           => Wrote(last.ctx.expected)
    /\ (Did("operation", "ExpectedContext") /\ ~last.before.failing)
           => Wrote(last.ctx.operation)

C5_Witness ==
    /\ Did("operation", "ExpectedContext")
    /\ last.ctx = ExpectedContext("context", "")
    /\ sink.buf = <<"context">>

\* C6: for OperationContext, has_expected is false, operation writes the text
\* (sink not failing), and expected returns a formatting error and writes
\* nothing to the sink, not even the empty text.
C6_OperationOnlyVariant ==
    /\ Did("has_expected", "OperationContext") => last.res = FALSE
    /\ (Did("operation", "OperationContext") /\ ~last.before.failing) => Wrote(last.ctx.op)
    /\ Did("expected", "OperationContext") => (last.res = Err(FmtError) /\ WroteNothing)

C6_Witness ==
    /\ Did("expected", "OperationContext")
    /\ ~last.before.failing
    /\ last.res = Err(FmtError)
    /\ sink.buf = <<>>

\* C7: for a &'static str label, the empty one included, has_expected is
\* true, expected writes the label, and operation writes "context" whatever
\* the label is (sink not failing).
C7_BareLabelVariant ==
    /\ Did("has_expected", "str") => last.res = TRUE
    /\ (Did("expected", "str") /\ ~last.before.failing) => Wrote(last.ctx.text)
    /\ (Did("operation", "str") /\ ~last.before.failing) => Wrote("context")

C7_Witness ==
    /\ Did("expected", "str")
    /\ last.ctx = StrContext("")
    /\ sink.buf = <<"">>

Overridden(type) == type \in {"str", "ExpectedContext"}

\* C8: operation returns a formatting error iff the sink's write fails; a
\* failed write in operation or in an overridden expected is returned as
\* a formatting error after that one attempt; no call attempts two writes.
C8_WriteFailurePropagates ==
    /\ last.method = "operation" => (~last.res.ok <=> last.before.failing)
    /\ ((last.method = "operation" \/ (last.method = "expected" /\ Overridden(last.ctx.type)))
            /\ last.before.failing)
           => /\ last.res = Err(FmtError)
              /\ sink.buf = last.before.buf
              /\ sink.attempts = last.before.attempts + 1
    /\ last.method \in {"operation", "expected"}
           => sink.attempts <= last.before.attempts + 1

C8_Witness ==
    /\ Did("expected", "ExpectedContext")
    /\ last.before.failing
    /\ last.res = Err(FmtError)
    /\ last.before.attempts = 1

\* C9: as_any exposes the value under its own type: downcasting to the
\* variant's own type yields the original value, downcasting to either of
\* the other two built-in types yields nothing.
C9_DowncastRoundTrip ==
    last.method = "downcast" =>
        /\ (last.arg = last.ctx.type => last.res = Some(last.ctx))
        /\ (last.arg # last.ctx.type => last.res = None)

C9_Witness ==
    /\ last.method = "downcast"
    /\ last.ctx = ExpectedContext("", "context")
    /\ last.arg = "ExpectedContext"
    /\ last.res.some

\* C10 as stated: on a sink that does not fail, expected succeeds exactly
\* when has_expected is true, for every variant.
C10_AsStated ==
    (last.method = "expected" /\ ~last.before.failing) =>
        (last.res.ok <=> has_expected(last.ctx))

\* C10 amended: on a sink that does not fail, expected succeeds whenever
\* has_expected is true; for the label and operation-only variants it succeeds
\* exactly then; for a pair whose expected field is empty has_expected is false
\* and expected succeeds, writing the empty text.
C10_Amended ==
    (last.method = "expected" /\ ~last.before.failing) =>
        /\ has_expected(last.ctx) => last.res.ok
        /\ last.ctx.type # "ExpectedContext" => (last.res.ok <=> has_expected(last.ctx))
        /\ (last.ctx.type = "ExpectedContext" /\ last.ctx.expected = "")
               => (~has_expected(last.ctx) /\ Wrote(""))

C10_Witness ==
    /\ Did("expected", "ExpectedContext")
    /\ last.ctx.expected = ""
    /\ ~last.before.failing
    /\ ~has_expected(last.ctx)
    /\ last.res.ok

====
